---- MODULE Spec2Model ----
(***************************************************************************)
(* Model of simpletable.py: HTMLTableCell, HTMLTableRow, HTMLTable and     *)
(* HTMLPage.  Python objects live on a heap and are named by references,   *)
(* so that two names of one list are one list.  A Python string is a       *)
(* sequence of symbols; "\n".join and %-formatting are concatenations.     *)
(* SpecRows drives cells and rows, SpecTables rows and tables, SpecPage    *)
(* pages over two tables built beforehand.                                 *)
(***************************************************************************)
EXTENDS Integers, Sequences, FiniteSets, TLC

VARIABLES cells, lists, rows, tables, pages, gtable, handles, call, ret, last

vars == <<cells, lists, rows, tables, pages, gtable, handles, call, ret, last>>

(* ---------------------------- bounds ----------------------------------- *)
MaxCells == 2
MaxLists == 3
MaxRows == 2
MaxTables == 1
MaxListLen == 3
MaxCallerLists == 1
MaxPages == 1
MaxFiles == 1
MaxBody == 2

(* ------------------------- Python values ------------------------------- *)
None == [tag |-> "None"]
Str(s) == [tag |-> "str", s |-> s]
Tup(items) == [tag |-> "tuple", items |-> items]
\* a list display [x, y] written at a call site: it becomes a heap list
\* when the callee keeps it
Lit(items) == [tag |-> "lit", items |-> items]
ListRef(i) == [tag |-> "list", id |-> i]
CellRef(i) == [tag |-> "cell", id |-> i]
RowRef(i) == [tag |-> "row", id |-> i]
TableRef(i) == [tag |-> "table", id |-> i]

Ok(v) == [exc |-> "none", val |-> v]
Raise(e) == [exc |-> e, val |-> None]

Heap == [cells |-> cells, lists |-> lists, rows |-> rows, tables |-> tables]

\* the two default-argument lists: `cells=[]` of HTMLTableRow.__init__ and
\* `rows=[]` of HTMLTable.__init__, created once when the class is defined
RowDefaultCells == ListRef(1)
TableDefaultRows == ListRef(2)

\* v[0] without the IndexError: an empty sequence yields None
GetItem0OrNone(h, v) ==
    CASE v.tag = "list" ->
            IF Len(h.lists[v.id]) = 0 THEN Ok(None) ELSE Ok(h.lists[v.id][1])
      [] v.tag \in {"tuple", "lit"} ->
            IF Len(v.items) = 0 THEN Ok(None) ELSE Ok(v.items[1])
      [] v.tag = "str" ->
            IF Len(v.s) = 0 THEN Ok(None) ELSE Ok(Str(<<v.s[1]>>))
      [] OTHER -> Raise("TypeError")

\* v[0]
GetItem0(h, v) ==
    CASE v.tag = "list" ->
            IF Len(h.lists[v.id]) = 0 THEN Raise("IndexError")
            ELSE Ok(h.lists[v.id][1])
      [] v.tag \in {"tuple", "lit"} ->
            IF Len(v.items) = 0 THEN Raise("IndexError") ELSE Ok(v.items[1])
      [] v.tag = "str" ->
            IF Len(v.s) = 0 THEN Raise("IndexError") ELSE Ok(Str(<<v.s[1]>>))
      [] OTHER -> Raise("TypeError")

\* the elements `for x in v` yields when v is not changed meanwhile
Elements(h, v) ==
    CASE v.tag = "list" -> h.lists[v.id]
      [] v.tag \in {"tuple", "lit"} -> v.items
      [] v.tag = "str" -> [i \in 1..Len(v.s) |-> Str(<<v.s[i]>>)]
      [] v.tag = "row" -> h.lists[h.rows[v.id].cells.id]
      [] v.tag = "table" -> h.lists[h.tables[v.id].rows.id]

RECURSIVE Join(_, _)
\* sep.join(parts)
Join(parts, sep) ==
    IF Len(parts) = 0 THEN <<>>
    ELSE IF Len(parts) = 1 THEN parts[1]
    ELSE parts[1] \o sep \o Join(Tail(parts), sep)

\* str(v) of a text value
TextStr(v) ==
    CASE v.tag = "str" -> v.s

\* pre + '%s' + post, formatted with `% (v)`: a tuple v is the argument
\* tuple of the format, anything else is its single argument
Format(pre, v, post) ==
    IF v.tag = "tuple"
    THEN IF Len(v.items) = 1 THEN Ok(pre \o TextStr(v.items[1]) \o post)
         ELSE Raise("TypeError")
    ELSE Ok(pre \o TextStr(v) \o post)

\* `self.x = v`: the reference kept, and the heap holding what it names
Keep(h, v) ==
    IF v.tag = "lit"
    THEN [h |-> [h EXCEPT !.lists = Append(@, v.items)],
          ref |-> ListRef(Len(h.lists) + 1)]
    ELSE [h |-> h, ref |-> v]

(* --------------------------- HTMLTableCell ----------------------------- *)
HTMLTableCell__init__(h, text, header) ==
    [h EXCEPT !.cells = Append(@, [text |-> text, header |-> header])]

HTMLTableCell__str__(h, c) ==
    IF h.cells[c].header
    THEN Format(<<"<th>">>, h.cells[c].text, <<"</th>">>)
    ELSE Format(<<"<td>">>, h.cells[c].text, <<"</td>">>)

(* --------------------------- HTMLTableRow ------------------------------ *)
\* the comprehension [HTMLTableCell(cell, header=header) for cell in cells]
WrapCells(h, elems, header) ==
    [h EXCEPT !.cells = @ \o [i \in 1..Len(elems) |->
                                [text |-> elems[i], header |-> header]],
              !.lists = Append(@, [i \in 1..Len(elems) |->
                                     CellRef(Len(h.cells) + i)])]

HTMLTableRow__init__(h, cellsArg, header) ==
    LET first == GetItem0(h, cellsArg) IN
    IF first.exc # "none" THEN [exc |-> first.exc, h |-> h, id |-> 0]
    ELSE IF first.val.tag = "cell"
    THEN LET k == Keep(h, cellsArg) IN
         [exc |-> "none",
          h |-> [k.h EXCEPT !.rows = Append(@, [cells |-> k.ref,
                                                 header |-> header])],
          id |-> Len(h.rows) + 1]
    ELSE LET h2 == WrapCells(h, Elements(h, cellsArg), header) IN
         [exc |-> "none",
          h |-> [h2 EXCEPT !.rows = Append(@, [cells |-> ListRef(Len(h2.lists)),
                                                header |-> header])],
          id |-> Len(h.rows) + 1]

\* str(x) of an element of a row's cell list
CellItemStr(h, v) ==
    CASE v.tag = "cell" -> HTMLTableCell__str__(h, v.id)

\* the first exception raised while converting the items in order
FirstExc(rs) ==
    IF \E i \in 1..Len(rs) : rs[i].exc # "none"
    THEN rs[CHOOSE i \in 1..Len(rs) :
                /\ rs[i].exc # "none"
                /\ \A j \in 1..(i - 1) : rs[j].exc = "none"].exc
    ELSE "none"

HTMLTableRow__str__(h, r) ==
    LET items == h.lists[h.rows[r].cells.id]
        rs == [i \in 1..Len(items) |-> CellItemStr(h, items[i])]
    IN IF FirstExc(rs) # "none" THEN Raise(FirstExc(rs))
       ELSE Ok(Join(<<(<<"<tr>">>)>> \o [i \in 1..Len(rs) |-> rs[i].val]
                    \o <<(<<"</tr>">>)>>, <<"\n">>))

\* list.insert(0, x) in place of list.append(x)
ListInsertFirst(h, l, x) == [h EXCEPT !.lists[l] = <<x>> \o @]

\* list.append(x)
ListAppend(h, l, x) == [h EXCEPT !.lists[l] = Append(@, x)]

HTMLTableRow_add_cell(h, r, cell) == ListAppend(h, h.rows[r].cells.id, cell)


(* ----------------------------- HTMLTable -------------------------------- *)
RECURSIVE WrapRows(_, _, _)
\* the comprehension [HTMLTableRow(row) for row in rows]; acc holds the
\* rows built so far
WrapRows(h, elems, acc) ==
    IF Len(elems) = 0
    THEN [exc |-> "none",
          h |-> [h EXCEPT !.lists = Append(@, acc)],
          ref |-> ListRef(Len(h.lists) + 1)]
    ELSE LET r == HTMLTableRow__init__(h, Head(elems), FALSE) IN
         IF r.exc # "none" THEN [exc |-> r.exc, h |-> h, ref |-> None]
         ELSE WrapRows(r.h, Tail(elems), Append(acc, RowRef(r.id)))

\* lines 147-150: self.rows
TableRows(h, rowsArg) ==
    LET first == GetItem0(h, rowsArg) IN
    IF first.exc # "none" THEN [exc |-> first.exc, h |-> h, ref |-> None]
    ELSE IF first.val.tag = "row"
    THEN LET k == Keep(h, rowsArg) IN [exc |-> "none", h |-> k.h, ref |-> k.ref]
    ELSE WrapRows(h, Elements(h, rowsArg), <<>>)

\* lines 152-157: self.header_row
TableHeaderRow(h, header_row) ==
    IF header_row = None THEN [exc |-> "none", h |-> h, ref |-> None]
    ELSE IF header_row.tag = "row"
    THEN [exc |-> "none", h |-> h, ref |-> header_row]
    ELSE LET r == HTMLTableRow__init__(h, header_row, TRUE) IN
         [exc |-> r.exc, h |-> r.h,
          ref |-> IF r.exc = "none" THEN RowRef(r.id) ELSE None]

HTMLTable__init__(h, rowsArg, header_row, css_class) ==
    LET b == TableRows(h, rowsArg) IN
    IF b.exc # "none" THEN [exc |-> b.exc, h |-> h, id |-> 0]
    ELSE LET hr == TableHeaderRow(b.h, header_row) IN
         IF hr.exc # "none" THEN [exc |-> hr.exc, h |-> h, id |-> 0]
         ELSE [exc |-> "none",
               h |-> [hr.h EXCEPT !.tables =
                         Append(@, [rows |-> b.ref, header_row |-> hr.ref,
                                    css_class |-> css_class])],
               id |-> Len(h.tables) + 1]

\* bool(v): None and empty strings and tuples are false; the classes of this
\* module define neither __len__ nor __bool__, so their objects are true
Truthy(v) ==
    CASE v.tag = "None" -> FALSE
      [] v.tag = "str" -> Len(v.s) > 0
      [] v.tag \in {"tuple", "lit"} -> Len(v.items) > 0
      [] OTHER -> TRUE

\* the test `if self.css_class is not None` in place of `if self.css_class`
OpenTagIfNotNone(css_class) ==
    IF css_class # None
    THEN Format(<<"<table class=">>, css_class, <<">">>)
    ELSE Ok(<<"<table>">>)

\* lines 165-168
OpenTag(css_class) ==
    IF Truthy(css_class)
    THEN Format(<<"<table class=">>, css_class, <<">">>)
    ELSE Ok(<<"<table>">>)

\* str(x) of the header row or of an element of a table's row list
RowItemStr(h, v) ==
    CASE v.tag = "row" -> HTMLTableRow__str__(h, v.id)

\* the header row appended after the body rows
TablePartsHeaderLast(open, header, body) ==
    <<open>> \o body \o header \o <<Ok(<<"</table>">>)>>

\* the list `table` of HTMLTable.__str__, before the final join
TableParts(open, header, body) ==
    <<open>> \o header \o body \o <<Ok(<<"</table>">>)>>

HTMLTable__str__(h, t) ==
    LET tab == h.tables[t]
        items == h.lists[tab.rows.id]
        header == IF Truthy(tab.header_row)
                  THEN <<RowItemStr(h, tab.header_row)>> ELSE <<>>
        body == [i \in 1..Len(items) |-> RowItemStr(h, items[i])]
        rs == TableParts(OpenTag(tab.css_class), header, body)
    IN IF FirstExc(rs) # "none" THEN Raise(FirstExc(rs))
       ELSE Ok(Join([i \in 1..Len(rs) |-> rs[i].val], <<"\n">>))

HTMLTable_add_row(h, t, row) == ListAppend(h, h.tables[t].rows.id, row)

(* ------------------------------ HTMLPage -------------------------------- *)
Unbound == [tag |-> "unbound"]

HTMLPage__init__(ps, table, css, encoding) ==
    Append(ps, [table |-> table, css |-> css, encoding |-> encoding])

\* str(table), line 222: `table` is looked up in the module's globals, g
GlobalTableStr(h, g) ==
    CASE g.tag = "unbound" -> Raise("NameError")
      [] g.tag = "table" -> HTMLTable__str__(h, g.id)

HTMLPage__str__(h, g, page) ==
    LET style == IF Truthy(page.css)
                 THEN <<Format(<<"<style type=\"text/css\">", "\n">>, page.css,
                               <<"\n", "</style>">>)>>
                 ELSE <<>>
        meta == Format(<<"<meta http-equiv=\"Content-Type\" content=\"text/html;charset=">>,
                       page.encoding, <<"\">">>)
        tab == IF Truthy(page.table) THEN <<GlobalTableStr(h, g)>> ELSE <<>>
        rs == style \o <<meta>> \o tab
    IN IF FirstExc(rs) # "none" THEN Raise(FirstExc(rs))
       ELSE Ok(Join([i \in 1..Len(rs) |-> rs[i].val], <<"\n">>))

(* ----------------- add_cells / add_rows: the for loop ------------------- *)
\* the list a `for` over v reads, element by element, while the loop runs:
\* a list is read in place, and iterating a row or a table reads its list
LiveList(h, v) ==
    CASE v.tag = "list" -> v.id
      [] v.tag = "row" -> h.rows[v.id].cells.id
      [] v.tag = "table" -> h.tables[v.id].rows.id
      [] OTHER -> 0

\* what the iterator yields at position i (0 elements consumed so far is
\* i = 0), or None when it is exhausted
IterNext(h, v, i) ==
    LET s == Elements(h, v) IN
    IF i < Len(s) THEN Ok(s[i + 1]) ELSE Raise("StopIteration")

\* one turn of `for x in src: target.append(x)`; target is a list id
LoopTurn(h, c, target) ==
    LET nx == IterNext(h, c.src, c.i) IN
    IF nx.exc = "StopIteration" THEN [done |-> TRUE, h |-> h]
    ELSE [done |-> FALSE, h |-> ListAppend(h, target, nx.val)]

(* --------------------------- the caller --------------------------------- *)
Idle == [op |-> "idle"]

SA == Str(<<"a">>)
SB == Str(<<"b">>)
TAB == Tup(<<SA, SB>>)

CellTexts == {SA}

\* raw sequences a caller passes as a row
RawSeqs == {Lit(<<>>), Str(<<>>), Lit(<<SA>>), Lit(<<SB, TAB>>)}

\* what a caller passes as header_row
HeaderArgs == {None, Lit(<<>>), Lit(<<SB>>)}

CssClasses == {None, Str(<<>>), Str(<<"t">>)}

\* no list is longer than MaxListLen
FitsLen(h) == \A i \in 1..Len(h.lists) : Len(h.lists[i]) <= MaxListLen

Fits(h) ==
    /\ Len(h.cells) <= MaxCells
    /\ Len(h.lists) <= 2 + MaxLists
    /\ Len(h.rows) <= MaxRows
    /\ Len(h.tables) <= MaxTables
    /\ FitsLen(h)

SetHeap(h) ==
    /\ cells' = h.cells
    /\ lists' = h.lists
    /\ rows' = h.rows
    /\ tables' = h.tables

Init ==
    /\ cells = <<>>
    /\ lists = <<(<<>>), (<<>>)>>
    /\ rows = <<>>
    /\ tables = <<>>
    /\ pages = <<>>
    /\ gtable = Unbound
    /\ handles = <<>>
    /\ call = Idle
    /\ ret = Ok(None)
    /\ last = [op |-> "init"]

CellRefs == {CellRef(i) : i \in 1..Len(cells)}
RowRefs == {RowRef(i) : i \in 1..Len(rows)}
TableRefs == {TableRef(i) : i \in 1..Len(tables)}
ListRefs == {ListRef(i) : i \in 1..Len(lists)}

NewCell ==
    /\ call = Idle
    /\ Len(cells) < MaxCells
    /\ \E text \in CellTexts, header \in BOOLEAN :
         LET h == HTMLTableCell__init__(Heap, text, header) IN
         /\ Fits(h)
         /\ SetHeap(h)
         /\ ret' = Ok(CellRef(Len(h.cells)))
         /\ last' = [op |-> "Cell", text |-> text, header |-> header]
    /\ UNCHANGED <<pages, gtable, handles, call>>

\* a list of cells the caller builds and keeps a name for: [x] or [x, y]
NewCellList ==
    /\ call = Idle
    /\ Len(lists) < 2 + MaxCallerLists
    /\ \E x \in CellRefs, y \in CellRefs \cup {None} :
         lists' = Append(lists, IF y = None THEN <<x>> ELSE <<x, y>>)
    /\ ret' = Ok(ListRef(Len(lists')))
    /\ last' = [op |-> "list"]
    /\ UNCHANGED <<cells, rows, tables, pages, gtable, handles, call>>

\* the lists of cells on the heap (the empty ones included)
CellLists == {l \in ListRefs : \A i \in 1..Len(lists[l.id]) : lists[l.id][i].tag = "cell"}
RowLists == {l \in ListRefs : \A i \in 1..Len(lists[l.id]) : lists[l.id][i].tag = "row"}

NewRow ==
    /\ call = Idle
    /\ Len(rows) < MaxRows
    /\ \E arg \in {RowDefaultCells} \cup CellLists \cup RawSeqs
                     \cup {Lit(<<c>>) : c \in CellRefs},
          header \in BOOLEAN :
         LET res == HTMLTableRow__init__(Heap, arg, header) IN
         /\ Fits(res.h)
         /\ SetHeap(res.h)
         /\ ret' = IF res.exc = "none" THEN Ok(RowRef(res.id)) ELSE Raise(res.exc)
         /\ last' = [op |-> "Row", arg |-> arg, header |-> header]
    /\ UNCHANGED <<pages, gtable, handles, call>>

\* the sequences of rows a caller passes to HTMLTable
TableArgs ==
    {TableDefaultRows} \cup ListRefs \cup {Lit(<<r>>) : r \in RowRefs}
             \cup {Lit(<<>>), Lit(<<Lit(<<SA>>)>>), Lit(<<Lit(<<SA>>), Tup(<<SB>>)>>),
                   Lit(<<Lit(<<>>)>>)}

NewTable ==
    /\ call = Idle
    /\ Len(tables) < MaxTables
    /\ \E arg \in TableArgs, hdr \in HeaderArgs \cup RowRefs,
          css \in CssClasses :
         LET res == HTMLTable__init__(Heap, arg, hdr, css) IN
         /\ Fits(res.h)
         /\ SetHeap(res.h)
         /\ ret' = IF res.exc = "none" THEN Ok(TableRef(res.id)) ELSE Raise(res.exc)
         /\ last' = [op |-> "Table", arg |-> arg, header_row |-> hdr]
    /\ UNCHANGED <<pages, gtable, handles, call>>

AddCell ==
    /\ call = Idle
    /\ \E r \in 1..Len(rows), c \in CellRefs :
         LET h == HTMLTableRow_add_cell(Heap, r, c) IN
         /\ FitsLen(h)
         /\ SetHeap(h)
         /\ last' = [op |-> "add_cell", self |-> RowRef(r), arg |-> c]
    /\ ret' = Ok(None)
    /\ UNCHANGED <<pages, gtable, handles, call>>

AddRow ==
    /\ call = Idle
    /\ \E t \in 1..Len(tables), r \in RowRefs :
         LET h == HTMLTable_add_row(Heap, t, r) IN
         /\ FitsLen(h)
         /\ SetHeap(h)
         /\ last' = [op |-> "add_row", self |-> TableRef(t), arg |-> r]
    /\ ret' = Ok(None)
    /\ UNCHANGED <<pages, gtable, handles, call>>

\* a call of add_cells or add_rows is admitted when its appends fit in
\* MaxListLen, or when it reads the list it appends to
Admitted(self, src) ==
    \/ LiveList(Heap, src) = LiveList(Heap, self)
    \/ Len(Elements(Heap, self)) + Len(Elements(Heap, src)) <= MaxListLen

Enter(op, self, src) ==
    /\ Admitted(self, src)
    /\ call' = [op |-> op, self |-> self, src |-> src, i |-> 0,
                self0 |-> Elements(Heap, self), src0 |-> Elements(Heap, src)]
    /\ last' = [op |-> op, self |-> self, src |-> src]
    /\ UNCHANGED <<cells, lists, rows, tables, pages, gtable, handles, ret>>

\* one turn of the loop of the call in progress; a list that cannot grow
\* further ends the call with MemoryError
Turn(op) ==
    /\ call.op = op
    /\ LET target == LiveList(Heap, call.self)
           t == LoopTurn(Heap, call, target)
       IN IF t.done
          THEN /\ call' = Idle
               /\ ret' = Ok(None)
               /\ last' = [call EXCEPT !.op = op \o "_return"]
               /\ UNCHANGED <<cells, lists, rows, tables>>
          ELSE IF FitsLen(t.h)
          THEN /\ SetHeap(t.h)
               /\ call' = [call EXCEPT !.i = @ + 1]
               /\ last' = [op |-> op \o "_turn", self |-> call.self]
               /\ UNCHANGED ret
          ELSE /\ call' = Idle
               /\ ret' = Raise("MemoryError")
               /\ last' = [op |-> op \o "_raise", self |-> call.self]
               /\ UNCHANGED <<cells, lists, rows, tables>>
    /\ UNCHANGED <<pages, gtable, handles>>

AddCells ==
    /\ call = Idle
    /\ \E r \in RowRefs, src \in CellLists \cup RowRefs :
         Enter("add_cells", r, src)

AddCellsTurn == Turn("add_cells")

AddRows ==
    /\ call = Idle
    /\ \E t \in TableRefs, src \in RowLists \cup TableRefs :
         Enter("add_rows", t, src)

AddRowsTurn == Turn("add_rows")

StrCell ==
    /\ call = Idle
    /\ \E c \in 1..Len(cells) :
         /\ ret' = HTMLTableCell__str__(Heap, c)
         /\ last' = [op |-> "str", self |-> CellRef(c)]
    /\ UNCHANGED <<cells, lists, rows, tables, pages, gtable, handles, call>>

StrRow ==
    /\ call = Idle
    /\ \E r \in 1..Len(rows) :
         /\ ret' = HTMLTableRow__str__(Heap, r)
         /\ last' = [op |-> "str", self |-> RowRef(r)]
    /\ UNCHANGED <<cells, lists, rows, tables, pages, gtable, handles, call>>

StrTable ==
    /\ call = Idle
    /\ \E t \in 1..Len(tables) :
         /\ ret' = HTMLTable__str__(Heap, t)
         /\ last' = [op |-> "str", self |-> TableRef(t)]
    /\ UNCHANGED <<cells, lists, rows, tables, pages, gtable, handles, call>>

(* ------------------------- HTMLPage: the caller ------------------------- *)
\* the module's global `table` is bound, as line 272 binds it
BindTable ==
    /\ call = Idle
    /\ \E t \in TableRefs :
         /\ gtable' = t
         /\ last' = [op |-> "bind", arg |-> t]
    /\ ret' = Ok(None)
    /\ UNCHANGED <<cells, lists, rows, tables, pages, handles, call>>

Encodings == {Str(<<"utf-8">>)}
Styles == {None, Str(<<"css">>)}

NewPage ==
    /\ call = Idle
    /\ Len(pages) < MaxPages
    /\ \E table \in {None} \cup TableRefs, css \in Styles, encoding \in Encodings :
         pages' = HTMLPage__init__(pages, table, css, encoding)
    /\ ret' = Ok(Len(pages'))
    /\ last' = [op |-> "Page"]
    /\ UNCHANGED <<cells, lists, rows, tables, gtable, handles, call>>

StrPage ==
    /\ call = Idle
    /\ \E p \in 1..Len(pages) :
         /\ ret' = HTMLPage__str__(Heap, gtable, pages[p])
         /\ last' = [op |-> "str_page", self |-> p]
    /\ UNCHANGED <<cells, lists, rows, tables, pages, gtable, handles, call>>

\* codecs.open(filename, 'w', encoding): a new open file object, or IOError
CodecsOpen(hs, filename, ok) ==
    IF ok THEN [exc |-> "none",
                hs |-> Append(hs, [name |-> filename, open |-> TRUE, data |-> <<>>])]
    ELSE [exc |-> "IOError", hs |-> hs]

\* a close() at the end of the block in place of the with statement: an
\* exception skips it
CloseAtEnd(hs, f, exc) ==
    IF exc = "none" THEN [hs EXCEPT ![f].open = FALSE] ELSE hs

\* leaving the `with` block of save with exception exc ("none" when the
\* block ran to its end): the file object's __exit__ closes it
WithExit(hs, f, exc) == [hs EXCEPT ![f].open = FALSE]

\* outfile.write(line)
FileWrite(hs, f, line) == [hs EXCEPT ![f].data = Append(@, line)]

Filenames == {"test.html"}

\* save, line 228: the file is opened
Save ==
    /\ call = Idle
    /\ Len(handles) < MaxFiles
    /\ \E p \in 1..Len(pages), filename \in Filenames, ok \in BOOLEAN :
         LET o == CodecsOpen(handles, filename, ok) IN
         /\ handles' = o.hs
         /\ IF o.exc = "none"
            THEN /\ call' = [op |-> "save", self |-> p, f |-> Len(o.hs), pc |-> "str"]
                 /\ UNCHANGED ret
            ELSE /\ call' = Idle
                 /\ ret' = Raise(o.exc)
         /\ last' = [op |-> "save_open", self |-> p, exc |-> o.exc]
    /\ UNCHANGED <<cells, lists, rows, tables, pages, gtable>>

\* save, line 229: str(self) is evaluated inside the with block
SaveStr ==
    /\ call.op = "save"
    /\ call.pc = "str"
    /\ LET r == HTMLPage__str__(Heap, gtable, pages[call.self]) IN
       IF r.exc = "none"
       THEN /\ call' = [op |-> "save", self |-> call.self, f |-> call.f,
                        pc |-> "write", text |-> r.val, i |-> 0]
            /\ UNCHANGED <<handles, ret>>
            /\ last' = [op |-> "save_str", self |-> call.self]
       ELSE /\ handles' = WithExit(handles, call.f, r.exc)
            /\ call' = Idle
            /\ ret' = Raise(r.exc)
            /\ last' = [op |-> "save_raise", self |-> call.self]
    /\ UNCHANGED <<cells, lists, rows, tables, pages, gtable>>

\* save, lines 229-230: one turn of the loop over the characters of the
\* text; a write may fail (IOError); the end of the loop leaves the with block
SaveWrite ==
    /\ call.op = "save"
    /\ call.pc = "write"
    /\ IF call.i < Len(call.text)
       THEN \E ok \in BOOLEAN :
              IF ok
              THEN /\ handles' = FileWrite(handles, call.f, call.text[call.i + 1])
                   /\ call' = [call EXCEPT !.i = @ + 1]
                   /\ last' = [op |-> "save_write", self |-> call.self]
                   /\ UNCHANGED ret
              ELSE /\ handles' = WithExit(handles, call.f, "IOError")
                   /\ call' = Idle
                   /\ ret' = Raise("IOError")
                   /\ last' = [op |-> "save_raise", self |-> call.self]
       ELSE /\ handles' = WithExit(handles, call.f, "none")
            /\ call' = Idle
            /\ ret' = Ok(None)
            /\ last' = [op |-> "save_return", self |-> call.self]
    /\ UNCHANGED <<cells, lists, rows, tables, pages, gtable>>

EmptyHeap == [cells |-> <<>>, lists |-> <<(<<>>), (<<>>)>>, rows |-> <<>>, tables |-> <<>>]

\* two tables built as the example of lines 272-274 builds its table
ExampleHeap ==
    LET t1 == HTMLTable__init__(EmptyHeap, Lit(<<Lit(<<SA>>)>>), None,
                                Str(<<"t">>))
    IN HTMLTable__init__(t1.h, Lit(<<Lit(<<SB>>)>>), None, None).h

InitPage ==
    /\ cells = ExampleHeap.cells
    /\ lists = ExampleHeap.lists
    /\ rows = ExampleHeap.rows
    /\ tables = ExampleHeap.tables
    /\ pages = <<>>
    /\ gtable = Unbound
    /\ handles = <<>>
    /\ call = Idle
    /\ ret = Ok(None)
    /\ last = [op |-> "init"]

NextPage ==
    \/ BindTable \/ NewPage \/ StrPage \/ AddRow
    \/ Save \/ SaveStr \/ SaveWrite

SpecPage == InitPage /\ [][NextPage]_vars

\* save alone, over the two tables of the example
NextSave == BindTable \/ NewPage \/ Save \/ SaveStr \/ SaveWrite

SpecSave == InitPage /\ [][NextSave]_vars

NextRows ==
    \/ NewCell \/ NewCellList \/ NewRow
    \/ AddCell \/ AddCells \/ AddCellsTurn
    \/ StrCell \/ StrRow

SpecRows == Init /\ [][NextRows]_vars

NextTables ==
    \/ NewRow \/ NewTable
    \/ AddCell \/ AddRow \/ AddRows \/ AddRowsTurn
    \/ StrTable

SpecTables == Init /\ [][NextTables]_vars

\* the raw rows a drawn table is built from
DrawnRows == {Lit(<<SA>>), Lit(<<SB, TAB>>), Tup(<<SB>>)}

RECURSIVE SeqsUpTo(_, _)
\* the sequences over S of length 0 to n
SeqsUpTo(S, n) ==
    IF n = 0 THEN {<<>>}
    ELSE LET shorter == SeqsUpTo(S, n - 1) IN
         shorter \cup {Append(q, x) : q \in {r \in shorter : Len(r) = n - 1}, x \in S}

\* one table, built by HTMLTable from 1 to MaxBody raw rows, or from one
\* row built beforehand from a cell built beforehand
DrawnTables ==
    LET c == HTMLTableCell__init__(EmptyHeap, SA, TRUE)
        r == HTMLTableRow__init__(c, Lit(<<CellRef(1)>>), FALSE).h
    IN {HTMLTable__init__(EmptyHeap, Lit(body), hdr, css) :
            body \in SeqsUpTo(DrawnRows, MaxBody) \ {<<>>},
            hdr \in HeaderArgs, css \in CssClasses}
       \cup {HTMLTable__init__(r, Lit(<<RowRef(1)>>), hdr, css) :
            hdr \in HeaderArgs \cup {RowRef(1)}, css \in CssClasses}

InitStr ==
    /\ \E res \in DrawnTables :
         /\ res.exc = "none"
         /\ cells = res.h.cells
         /\ lists = res.h.lists
         /\ rows = res.h.rows
         /\ tables = res.h.tables
    /\ pages = <<>>
    /\ gtable = Unbound
    /\ handles = <<>>
    /\ call = Idle
    /\ ret = Ok(None)
    /\ last = [op |-> "init"]

\* serialization of one drawn table, and of what add_row makes of it
NextStr == AddRow \/ StrTable

SpecStr == InitStr /\ [][NextStr]_vars

(* ===================== the claims, C1 to C10 =========================== *)
RECURSIVE SplitLines(_)
\* the lines of a text: its pieces between the "\n" symbols
SplitLines(s) ==
    IF \A i \in 1..Len(s) : s[i] # "\n" THEN <<s>>
    ELSE LET k == CHOOSE i \in 1..Len(s) :
                    s[i] = "\n" /\ \A j \in 1..(i - 1) : s[j] # "\n"
         IN <<SubSeq(s, 1, k - 1)>> \o SplitLines(SubSeq(s, k + 1, Len(s)))

RECURSIVE Flatten(_)
Flatten(ss) == IF Len(ss) = 0 THEN <<>> ELSE Head(ss) \o Flatten(Tail(ss))

\* the plain text form of a raw value: a string is itself, a tuple of
\* strings is written ('a', 'b')
PlainText(v) ==
    IF v.tag = "str" THEN v.s
    ELSE <<"(">> \o Join([i \in 1..Len(v.items) |-> <<"'">> \o v.items[i].s \o <<"'">>],
                         <<", ">>)
               \o (IF Len(v.items) = 1 THEN <<",">> ELSE <<>>) \o <<")">>

LastIsStrOf(tag) == last.op = "str" /\ last.self.tag = tag

\* C1: serializing a Page whose table is set does not fail, and the table
\* segment (the end of the output) is the serialization of the Page's own
\* table, whatever the module's global names are.
C1_PageEmitsOwnTable ==
    (last.op = "str_page" /\ pages[last.self].table # None) =>
        LET own == HTMLTable__str__(Heap, pages[last.self].table.id) IN
        /\ ret.exc = "none"
        /\ Len(ret.val) >= Len(own.val)
        /\ SubSeq(ret.val, Len(ret.val) - Len(own.val) + 1, Len(ret.val)) = own.val

\* the rows a table renders, in order: the header row if any, then the body
RenderedRows(t) ==
    (IF tables[t].header_row = None THEN <<>> ELSE <<tables[t].header_row>>)
        \o lists[tables[t].rows.id]

\* C2: the lines of Table.serialize() are the opening table tag, the lines
\* of the header row's serialization if there is one, the lines of each
\* body row's serialization in storage order, and the closing tag; it fails
\* exactly when the serialization of one of these rows fails.
C2_TableLayout ==
    LastIsStrOf("table") =>
        LET rr == RenderedRows(last.self.id)
            outs == [i \in 1..Len(rr) |-> HTMLTableRow__str__(Heap, rr[i].id)]
        IN IF \A i \in 1..Len(rr) : outs[i].exc = "none"
           THEN /\ ret.exc = "none"
                /\ LET ls == SplitLines(ret.val) IN
                   /\ Head(ls[1]) \in {"<table>", "<table class="}
                   /\ Tail(ls) = Flatten([i \in 1..Len(rr) |-> SplitLines(outs[i].val)])
                                   \o <<(<<"</table>">>)>>
           ELSE ret.exc # "none"

C2_Witness ==
    /\ LastIsStrOf("table")
    /\ ret.exc = "none"
    /\ tables[last.self.id].header_row # None
    /\ LET body == lists[tables[last.self.id].rows.id] IN
       /\ Len(body) >= 2
       /\ body[1] # body[2]
       /\ tables[last.self.id].header_row # body[1]

\* C3 as claimed: the opening tag carries the class attribute if and only
\* if css_class is not None (the empty string counts as set).
C3_ClassIffNotNone ==
    (LastIsStrOf("table") /\ ret.exc = "none") =>
        LET css == tables[last.self.id].css_class
            open == SplitLines(ret.val)[1]
        IN IF css # None THEN open = <<"<table class=">> \o css.s \o <<">">>
           ELSE open = <<"<table>">>

\* C3 as amended: the opening tag carries the class attribute naming
\* css_class if and only if css_class is a non-empty string; for None and
\* for the empty string it is exactly <table>.
C3_ClassIffNonEmpty ==
    (LastIsStrOf("table") /\ ret.exc = "none") =>
        LET css == tables[last.self.id].css_class
            open == SplitLines(ret.val)[1]
        IN IF css # None /\ css.s # <<>>
           THEN open = <<"<table class=">> \o css.s \o <<">">>
           ELSE open = <<"<table>">>

C3_Witness ==
    /\ LastIsStrOf("table")
    /\ ret.exc = "none"
    /\ tables[last.self.id].css_class = Str(<<>>)

\* C4: a Row built from a non-empty sequence v of raw values with flag h
\* holds Len(v) cells, cell i with text v[i] and header h, and serializes to
\* <tr>, one <td>..</td> (or <th>..</th> when h) line per element, </tr>.
C4_RowOfRawValues ==
    (/\ last.op = "Row"
     /\ last.arg.tag # "list"
     /\ Len(Elements(Heap, last.arg)) > 0
     /\ Elements(Heap, last.arg)[1].tag # "cell") =>
        /\ ret.exc = "none"
        /\ LET v == Elements(Heap, last.arg)
               cs == lists[rows[ret.val.id].cells.id]
               out == HTMLTableRow__str__(Heap, ret.val.id)
               o == IF last.header THEN "<th>" ELSE "<td>"
               c == IF last.header THEN "</th>" ELSE "</td>"
           IN /\ Len(cs) = Len(v)
              /\ \A i \in 1..Len(v) :
                    cells[cs[i].id] = [text |-> v[i], header |-> last.header]
              /\ out.exc = "none"
              /\ SplitLines(out.val) =
                    <<(<<"<tr>">>)>>
                    \o [i \in 1..Len(v) |-> <<o>> \o PlainText(v[i]) \o <<c>>]
                    \o <<(<<"</tr>">>)>>

\* C5: constructing a Row or a Table from an empty sequence (the default
\* argument included) raises IndexError and creates no object.
C5_EmptyInputFails ==
    [][(last'.op \in {"Row", "Table"} /\ Len(Elements(Heap, last'.arg)) = 0) =>
          /\ ret'.exc = "IndexError"
          /\ UNCHANGED <<cells, lists, rows, tables>>]_vars

C5_Witness ==
    /\ last.op = "Table"
    /\ last.arg = TableDefaultRows
    /\ ret.exc = "IndexError"
    /\ Len(rows) > 0

\* C6: add_cell and add_row make the container's sequence one longer, with
\* the new element last and every prior element at its prior position.
C6_AppendOne ==
    [][last'.op \in {"add_cell", "add_row"} =>
          LET old == Elements(Heap, last'.self)
              new == Elements([cells |-> cells', lists |-> lists', rows |-> rows',
                               tables |-> tables'], last'.self)
          IN /\ Len(new) = Len(old) + 1
             /\ new[Len(new)] = last'.arg
             /\ \A i \in 1..Len(old) : new[i] = old[i]]_vars

C6_Witness ==
    /\ last.op = "add_row"
    /\ Len(Elements(Heap, last.self)) = 3
    /\ Elements(Heap, last.self)[3] = last.arg
    /\ Elements(Heap, last.self)[3] # Elements(Heap, last.self)[1]

\* C7: add_cells(s) and add_rows(s) append exactly the elements s had at the
\* call, so the container never grows beyond its prior length plus Len(s),
\* and the call returns with the prior sequence followed by s.
C7_AppendManyIsRepeatedAppend ==
    /\ call.op \in {"add_cells", "add_rows"} =>
          Len(Elements(Heap, call.self)) <= Len(call.self0) + Len(call.src0)
    /\ last.op \in {"add_cells_return", "add_rows_return"} =>
          Elements(Heap, last.self) = last.self0 \o last.src0

\* the lists a page's own table is made of: its row list, and the cell
\* lists of its rows
OwnLists(h, page) ==
    LET rl == h.tables[page.table.id].rows.id IN
    {rl} \cup {h.rows[h.lists[rl][i].id].cells.id : i \in 1..Len(h.lists[rl])}

\* C8: serializing changes nothing, and the serialization of a page stays
\* the same over any add_row on a table that is not the page's own and
\* leaves the page's own table as it was.
C8_SerializeIdempotent ==
    [][/\ last'.op \in {"str", "str_page"} =>
             UNCHANGED <<cells, lists, rows, tables, pages, gtable>>
       /\ \A p \in 1..Len(pages) :
            (/\ pages[p].table # None
             /\ last'.op = "add_row"
             /\ last'.self # pages[p].table
             /\ \A l \in OwnLists(Heap, pages[p]) : lists'[l] = lists[l]) =>
                HTMLPage__str__([cells |-> cells', lists |-> lists', rows |-> rows',
                                 tables |-> tables'], gtable', pages[p])
                    = HTMLPage__str__(Heap, gtable, pages[p])]_vars

\* C9: when save is over, however it ended, no file is open; while it runs
\* only its own file is open; a failed open raises IOError to the caller,
\* with no call in progress and so no file open.
C9_SaveClosesFile ==
    /\ \A f \in 1..Len(handles) :
          handles[f].open => (call.op = "save" /\ call.f = f)
    /\ (last.op = "save_open" /\ last.exc # "none") =>
          (ret.exc = "IOError" /\ call = Idle)

C9_Witness ==
    /\ last.op = "save_raise"
    /\ ret.exc = "IOError"
    /\ Len(handles) = 1
    /\ ~handles[1].open
    /\ Len(handles[1].data) > 0

\* C10: an append to a row or a table changes the child sequence of no
\* other container.
C10_ExclusiveOwnership ==
    [][last'.op \in {"add_cell", "add_cells_turn", "add_row", "add_rows_turn"} =>
          /\ \A r \in 1..Len(rows) :
                RowRef(r) # last'.self => lists'[rows[r].cells.id] = lists[rows[r].cells.id]
          /\ \A t \in 1..Len(tables) :
                TableRef(t) # last'.self => lists'[tables[t].rows.id] = lists[tables[t].rows.id]]_vars

====
